---- MODULE Spec2Model ----
(***************************************************************************)
(* OpenCVFrameHelper (src/OpenCVFrameHelper.cpp): the colour and depth     *)
(* buffer decoders, the depth colorizer and the optical-flow tracking      *)
(* state that GetDepthDataAsArgb keeps in function-local statics.          *)
(*                                                                         *)
(* A matrix (cv::Mat) is the sequence of its rows, a row the sequence of   *)
(* its elements, and an element the tuple of its channels: <<v>> for a     *)
(* 16-bit or 8-bit single-channel sample, <<c0, c1, c2, c3>> for a Vec4b.  *)
(* At(mat, x, y) is the element the code writes as mat.ptr(y)[x].  An      *)
(* element of the caller's output matrix that the call did not write is    *)
(* <<>>, and the empty cv::Mat is <<>>.  A raw buffer is the sequence of   *)
(* its bytes, Byte(buf, offset) the byte the code writes as buf[offset].   *)
(***************************************************************************)
EXTENDS Integers, Sequences, FiniteSets

\* ---------------------------------------------------------------- bounds
\* Depth resolution (NuiImageResolutionToSize(m_depthResolution, ...)).
DepthWidth == 2
DepthHeight == 2
\* Colour resolution (NuiImageResolutionToSize(m_colorResolution, ...)).
ColorWidth == 2
ColorHeight == 2
\* Number of distinct depth frames the sensor may deliver.
NumDepthFrames == 2
\* Number of distinct colour frames the sensor may deliver.
NumColorFrames == 1
\* Most corners a successful detection reports in the model.
MaxFound == 1

\* ---------------------------------------------------- program constants
\* maxCorners argument of cv::goodFeaturesToTrack
MaxCorners == 20
\* size of the static currentFeatures vector at construction
InitialFeatures == 20
\* the "no valid depth" sample
InvalidDepth == 65535

S_OK == "S_OK"
E_NUI_FRAME_NO_DATA == "E_NUI_FRAME_NO_DATA"

VARIABLES
    m_colorBufferPitch,  \* bytes per row of the colour buffer, 0 = no frame
    m_pColorBuffer,      \* raw colour bytes, offset -> byte
    m_depthBufferPitch,  \* bytes per row of the depth buffer, 0 = no frame
    m_pDepthBuffer,      \* raw depth bytes, offset -> byte
    prevImage,           \* static Mat prevImage
    prevFeatures,        \* static std::vector<cv::Point> prevFeatures
    currentFeatures,     \* static std::vector<cv::Point> currentFeatures(20)
    pImage,              \* the caller's output matrix after the latest call
    hr,                  \* HRESULT of the latest call
    lastCall,            \* which operation the latest call was
    depthImage,          \* local depthImage of the latest GetDepthDataAsArgb
    trackStep,           \* what the tracker did in the latest call
    frameCounter         \* frame counter of the Temporal Delta Tracker (spec 4.3)

vars == <<m_colorBufferPitch, m_pColorBuffer, m_depthBufferPitch, m_pDepthBuffer,
          prevImage, prevFeatures, currentFeatures, pImage, hr, lastCall,
          depthImage, trackStep, frameCounter>>

members == <<m_colorBufferPitch, m_pColorBuffer, m_depthBufferPitch, m_pDepthBuffer>>
statics == <<prevImage, prevFeatures, currentFeatures>>

\* ------------------------------------------------------------ matrices
EmptyMat == << >>

Rows(h) == 0 .. (h - 1)
Cols(w) == 0 .. (w - 1)

At(mat, x, y) == mat[y + 1][x + 1]

Byte(buf, offset) == buf[offset + 1]

\* A caller-allocated matrix none of whose elements has been written.
Untouched(w, h) == [r \in 1 .. h |-> [c \in 1 .. w |-> << >>]]

Min(a, b) == IF a < b THEN a ELSE b

\* ------------------------------------------------- raw buffers (inputs)
\* Row pitches the capture subsystem reports: none, dense, padded.
DepthPitches == {0, 2 * DepthWidth, 2 * DepthWidth + 2}
ColorPitches == {0, 4 * ColorWidth, 4 * ColorWidth + 4}

DepthBufferSize == (2 * DepthWidth + 2) * DepthHeight
ColorBufferSize == (4 * ColorWidth + 4) * ColorHeight

DepthSamples == <<InvalidDepth, 7, 300, 1000>>

\* The k-th depth frame, as the sensor means it: sample (x, y).
DepthFrame(k, x, y) == DepthSamples[((y * DepthWidth + x + k) % 4) + 1]

\* Its bytes in a buffer of the given pitch, little-endian, rows padded with 170.
DepthLayout(k, pitch) ==
    [j \in 1 .. DepthBufferSize |->
        LET y == (j - 1) \div pitch
            o == (j - 1) % pitch
        IN  IF y < DepthHeight /\ o < 2 * DepthWidth
            THEN IF o % 2 = 0 THEN DepthFrame(k, o \div 2, y) % 256
                              ELSE DepthFrame(k, o \div 2, y) \div 256
            ELSE 170]

\* The k-th colour frame: byte c of pixel (x, y).
ColorByte(k, x, y, c) == (64 * k + 4 * (y * ColorWidth + x) + c + 1) % 256

ColorLayout(k, pitch) ==
    [j \in 1 .. ColorBufferSize |->
        LET y == (j - 1) \div pitch
            o == (j - 1) % pitch
        IN  IF y < ColorHeight /\ o < 4 * ColorWidth
            THEN ColorByte(k, o \div 4, y, o % 4)
            ELSE 255]

ZeroBuffer(size) == [j \in 1 .. size |-> 0]

\* ------------------------------------------------------ colour decoder
\* GetColorData's validity check.
GetColorDataHr(colorPitch) ==
    IF colorPitch = 0 THEN E_NUI_FRAME_NO_DATA ELSE S_OK

\* GetColorData's copy loop: pixel (x, y) is the four bytes at y * pitch + 4 * x.
GetColorDataMat(buf, pitch) ==
    [r \in 1 .. ColorHeight |-> [c \in 1 .. ColorWidth |->
        LET y == r - 1
            x == c - 1
        IN  << Byte(buf, y * pitch + x * 4 + 0),
               Byte(buf, y * pitch + x * 4 + 1),
               Byte(buf, y * pitch + x * 4 + 2),
               Byte(buf, y * pitch + x * 4 + 3) >>]]

\* ------------------------------------------------------- depth decoder
\* GetDepthData's validity check: it reads the colour pitch.
GetDepthDataHr(colorPitch, depthPitch) ==
    IF colorPitch = 0 THEN E_NUI_FRAME_NO_DATA ELSE S_OK

\* pBufferRun[i]: the buffer seen as 16-bit little-endian samples.
pBufferRun(buf, i) == Byte(buf, 2 * i) + 256 * Byte(buf, 2 * i + 1)

\* GetDepthData's copy loop: element (x, y) is sample y * depthWidth + x.
GetDepthDataMat(buf) ==
    [r \in 1 .. DepthHeight |-> [c \in 1 .. DepthWidth |->
        LET y == r - 1
            x == c - 1
        IN  << pBufferRun(buf, y * DepthWidth + x) >>]]

\* ------------------------------------------------------------ colorizer
\* The scalar-to-RGB mapping, a pure function of the 16-bit sample: the low
\* three bits are the player index, the rest the distance.
DepthShortToRgb(raw) ==
    LET player == raw % 8
        intensity == 255 - ((raw \div 8) % 256)
    IN  << intensity, (intensity * (8 - player)) \div 8, (32 * player) % 256 >>

\* The colorizer with the alpha channel at 255 instead of 1.
ColorizePixelOpaque(raw) ==
    IF raw # InvalidDepth
    THEN << DepthShortToRgb(raw)[1], DepthShortToRgb(raw)[2], DepthShortToRgb(raw)[3], 255 >>
    ELSE << 0, 0, 0, 0 >>

\* One pixel of the colorizer loop: Vec4b(red, green, blue, 1), or 0.
ColorizePixel(raw) ==
    IF raw # InvalidDepth
    THEN << DepthShortToRgb(raw)[1], DepthShortToRgb(raw)[2], DepthShortToRgb(raw)[3], 1 >>
    ELSE << 0, 0, 0, 0 >>

\* The colorizer loop over a depth matrix.
Colorize(mat) ==
    [r \in 1 .. DepthHeight |-> [c \in 1 .. DepthWidth |->
        ColorizePixel(At(mat, c - 1, r - 1)[1])]]

\* The colorizer reading the 8-bit tracking frame instead of the depth matrix.
ColorizerInputTestImage(depthMat, testMat) == testMat

\* The matrix the colorizer loop reads its rows from: depthImage.
ColorizerInput(depthMat, testMat) == depthMat

\* -------------------------------------------------------------- tracker
\* testImage.convertTo(testImage, CV_8U): every sample saturated to 0..255.
ConvertTo8U(mat) ==
    [r \in 1 .. DepthHeight |-> [c \in 1 .. DepthWidth |->
        << Min(At(mat, c - 1, r - 1)[1], 255) >>]]

\* Detection also re-run while a single point is tracked.
NeedsDetectionOffByOne(prev) == Len(prev) <= 1

\* prevFeatures.size() <= 0
NeedsDetection(prev) == Len(prev) <= 0

Positions == Cols(DepthWidth) \X Rows(DepthHeight)

\* cv::Point(): the value-initialised elements of currentFeatures(20).
PlaceholderFeatures == [i \in 1 .. InitialFeatures |-> << 0, 0 >>]

\* The n-th pixel of the image in row-major order, n from 1.
Corner(n) == << (n - 1) % DepthWidth, (n - 1) \div DepthWidth >>

\* What cv::goodFeaturesToTrack may write to currentFeatures when it returns:
\* the corners it found, at most maxCorners of them and possibly none, each a
\* different pixel of the image (here the first n in row-major order).
DetectResults ==
    { [i \in 1 .. n |-> Corner(i)] :
        n \in 0 .. Min(Min(MaxCorners, MaxFound), DepthWidth * DepthHeight) }

Displacements == { << 0, 0 >>, << 1, 0 >> }

\* What cv::calcOpticalFlowPyrLK may write to currentFeatures when it returns:
\* one point per point of prevPts, each moved by the flow found (kept inside
\* the image here).
FlowResults(prevPts) ==
    { [i \in 1 .. Len(prevPts) |->
          << Min(prevPts[i][1] + d[1], DepthWidth - 1),
             Min(prevPts[i][2] + d[2], DepthHeight - 1) >>] : d \in Displacements }

\* A catch block that also clears the feature vector.
OnThrowClear(current) == << >>

\* catch (cv::Exception ex) { log }: currentFeatures keeps what it held.
OnThrow(current) == current

Threw(step) == step \in {"detectThrew", "flowThrew"}

\* The state saved only when the tracker did not throw.
PersistUnlessThrew(testImage, step) ==
    IF Threw(step)
    THEN UNCHANGED <<prevImage, prevFeatures>>
    ELSE /\ prevImage' = testImage
         /\ prevFeatures' = currentFeatures'

\* prevImage = testImage.clone(); prevFeatures = currentFeatures;
Persist(testImage, step) ==
    /\ prevImage' = testImage
    /\ prevFeatures' = currentFeatures'

\* A tracker failure handed to the caller as an error code.
ReturnCodeFailing(step) == IF Threw(step) THEN "E_FAIL" ELSE S_OK

\* return S_OK; at the end of GetDepthDataAsArgb
ReturnCode(step) == S_OK

\* The frame counter of the Temporal Delta Tracker: incremented on every call
\* that obtains a frame, reset to 0 on every fourth.
CountFrame == frameCounter' = (frameCounter + 1) % 4

\* ------------------------------------------------------------ the state
\* The helper before any frame has arrived and before any call: no pitch, the
\* statics as their declarations construct them.
Init ==
    /\ m_colorBufferPitch = 0
    /\ m_pColorBuffer = ZeroBuffer(ColorBufferSize)
    /\ m_depthBufferPitch = 0
    /\ m_pDepthBuffer = ZeroBuffer(DepthBufferSize)
    /\ prevImage = EmptyMat
    /\ prevFeatures = << >>
    /\ currentFeatures = PlaceholderFeatures
    /\ pImage = EmptyMat
    /\ hr = "none"
    /\ lastCall = "none"
    /\ depthImage = EmptyMat
    /\ trackStep = "none"
    /\ frameCounter = 0

\* ---------------------------------------------- frames arriving (inputs)
\* The capture subsystem delivers a colour frame, or reports none: pitch 0, and
\* the buffer's bytes, which no operation then reads, are kept zeroed here.
UpdateColorFrame ==
    /\ \E pitch \in ColorPitches, k \in 0 .. (NumColorFrames - 1) :
          /\ m_colorBufferPitch' = pitch
          /\ m_pColorBuffer' =
                IF pitch = 0 THEN ZeroBuffer(ColorBufferSize) ELSE ColorLayout(k, pitch)
    /\ UNCHANGED <<m_depthBufferPitch, m_pDepthBuffer, statics, pImage, hr,
                   lastCall, depthImage, trackStep, frameCounter>>

\* The capture subsystem delivers a depth frame, or reports none: pitch 0, the
\* buffer keeping the stale bytes it held.
UpdateDepthFrame ==
    /\ \E pitch \in DepthPitches, k \in 0 .. (NumDepthFrames - 1) :
          /\ m_depthBufferPitch' = pitch
          /\ m_pDepthBuffer' =
                IF pitch = 0 THEN m_pDepthBuffer ELSE DepthLayout(k, pitch)
    /\ UNCHANGED <<m_colorBufferPitch, m_pColorBuffer, statics, pImage, hr,
                   lastCall, depthImage, trackStep, frameCounter>>

\* ----------------------------------------------------------- operations
\* HRESULT OpenCVFrameHelper::GetColorData(Mat* pImage) const
GetColorData ==
    /\ lastCall' = "GetColorData"
    /\ hr' = GetColorDataHr(m_colorBufferPitch)
    /\ pImage' = IF GetColorDataHr(m_colorBufferPitch) = S_OK
                 THEN GetColorDataMat(m_pColorBuffer, m_colorBufferPitch)
                 ELSE Untouched(ColorWidth, ColorHeight)
    /\ depthImage' = EmptyMat
    /\ trackStep' = "none"
    /\ UNCHANGED <<members, statics, frameCounter>>

\* HRESULT OpenCVFrameHelper::GetDepthData(Mat* pImage) const
GetDepthData ==
    /\ lastCall' = "GetDepthData"
    /\ hr' = GetDepthDataHr(m_colorBufferPitch, m_depthBufferPitch)
    /\ pImage' = IF GetDepthDataHr(m_colorBufferPitch, m_depthBufferPitch) = S_OK
                 THEN GetDepthDataMat(m_pDepthBuffer)
                 ELSE Untouched(DepthWidth, DepthHeight)
    /\ depthImage' = EmptyMat
    /\ trackStep' = "none"
    /\ UNCHANGED <<members, statics, frameCounter>>

\* GetDepthDataAsArgb losing its tracking state when no frame is there.
ArgbNoDataForgetting(code) ==
    /\ hr' = code
    /\ pImage' = Untouched(DepthWidth, DepthHeight)
    /\ depthImage' = EmptyMat
    /\ trackStep' = "none"
    /\ prevImage' = EmptyMat
    /\ prevFeatures' = << >>
    /\ UNCHANGED currentFeatures

\* if (!SUCCEEDED(hr)) return hr;  before anything else is touched
ArgbNoData(code) ==
    /\ hr' = code
    /\ pImage' = Untouched(DepthWidth, DepthHeight)
    /\ depthImage' = EmptyMat
    /\ trackStep' = "none"
    /\ UNCHANGED statics

\* GetDepthDataAsArgb once it holds a depth matrix: the tracker has run
\* (step) and left newCurrent in currentFeatures; colorize, save, return.
ArgbFrame(depthMat, step, newCurrent) ==
    /\ currentFeatures' = newCurrent
    /\ trackStep' = step
    /\ depthImage' = depthMat
    /\ pImage' = Colorize(ColorizerInput(depthMat, ConvertTo8U(depthMat)))
    /\ Persist(ConvertTo8U(depthMat), step)
    /\ hr' = ReturnCode(step)

\* The body of GetDepthDataAsArgb.
ArgbCall ==
    /\ lastCall' = "GetDepthDataAsArgb"
    /\ UNCHANGED members
    /\ IF GetDepthDataHr(m_colorBufferPitch, m_depthBufferPitch) # S_OK
       THEN ArgbNoData(GetDepthDataHr(m_colorBufferPitch, m_depthBufferPitch))
       ELSE IF NeedsDetection(prevFeatures)
            THEN \/ \E found \in DetectResults :
                       ArgbFrame(GetDepthDataMat(m_pDepthBuffer), "detect", found)
                 \/ ArgbFrame(GetDepthDataMat(m_pDepthBuffer), "detectThrew",
                              OnThrow(currentFeatures))
            ELSE \/ \E next \in FlowResults(prevFeatures) :
                       ArgbFrame(GetDepthDataMat(m_pDepthBuffer), "flow", next)
                 \/ ArgbFrame(GetDepthDataMat(m_pDepthBuffer), "flowThrew",
                              OnThrow(currentFeatures))

\* HRESULT OpenCVFrameHelper::GetDepthDataAsArgb(Mat* pImage) const
GetDepthDataAsArgb ==
    /\ ArgbCall
    /\ UNCHANGED frameCounter

\* The same call, observed together with the frame counter that the Temporal
\* Delta Tracker of the specification keeps beside it.
GetDepthDataAsArgbCounted ==
    /\ ArgbCall
    /\ IF GetDepthDataHr(m_colorBufferPitch, m_depthBufferPitch) = S_OK
       THEN CountFrame
       ELSE UNCHANGED frameCounter

Next ==
    \/ UpdateColorFrame
    \/ UpdateDepthFrame
    \/ GetColorData
    \/ GetDepthData
    \/ GetDepthDataAsArgb

Spec == Init /\ [][Next]_vars

NextDelta ==
    \/ UpdateColorFrame
    \/ UpdateDepthFrame
    \/ GetDepthDataAsArgbCounted

\* The depth colorization path alone, with the frame counter running.
SpecDelta == Init /\ [][NextDelta]_vars

\* =============================================================== claims
Argb == "GetDepthDataAsArgb"

\* The latest call was a GetDepthDataAsArgb that obtained a depth frame.
GotFrame == lastCall = Argb /\ depthImage # EmptyMat

\* The 16-bit little-endian sample at a byte offset of the depth buffer.
SampleAt(buf, offset) == Byte(buf, offset) + 256 * Byte(buf, offset + 1)

\* C1: a decode call whose own source buffer has row pitch zero returns
\* E_NUI_FRAME_NO_DATA and writes no element of the output matrix, for the
\* colour decoder and for the depth decoder, whatever the other buffer's pitch.
C1_NoDataOnZeroPitch ==
    [][ /\ (GetColorData /\ m_colorBufferPitch = 0)
            => (hr' = E_NUI_FRAME_NO_DATA
                /\ pImage' = Untouched(ColorWidth, ColorHeight))
        /\ (GetDepthData /\ m_depthBufferPitch = 0)
            => (hr' = E_NUI_FRAME_NO_DATA
                /\ pImage' = Untouched(DepthWidth, DepthHeight)) ]_vars

\* C2 (as claimed): on a call in which detection or flow throws, the previous
\* 8-bit frame and the previous feature sequence are the same after the call as
\* before it.  (Stated for the calls made while a depth frame is there.)
C2_StateKeptOnFailure ==
    [][ (GetDepthDataAsArgb /\ m_depthBufferPitch # 0 /\ Threw(trackStep'))
            => (prevImage' = prevImage /\ prevFeatures' = prevFeatures) ]_vars

\* C2 (amended): on a call in which detection or flow throws, currentFeatures
\* keeps what it held and that is what is stored as the previous feature
\* sequence, so a failed flow leaves the previous feature sequence as it was;
\* the previous frame is replaced by this call's 8-bit frame.
C2_FailureKeepsFeaturesOnly ==
    [][ (GetDepthDataAsArgb /\ Threw(trackStep'))
            => /\ currentFeatures' = currentFeatures
               /\ prevFeatures' = currentFeatures
               /\ (trackStep' = "flowThrew" => prevFeatures' = prevFeatures)
               /\ prevImage' = ConvertTo8U(GetDepthDataMat(m_pDepthBuffer)) ]_vars

\* A flow that threw, on a sequence that was being tracked.
C2_Witness ==
    /\ GotFrame
    /\ trackStep = "flowThrew"
    /\ prevFeatures # << >>
    /\ prevFeatures # PlaceholderFeatures

\* C3: after every GetDepthDataAsArgb that obtained a depth frame, whatever
\* the tracker did, the previous frame is that call's 8-bit frame and the
\* previous feature sequence is that call's current feature sequence.
C3_PersistsCurrent ==
    GotFrame =>
        /\ prevImage = ConvertTo8U(depthImage)
        /\ prevFeatures = currentFeatures

\* A failed tracker step after which the call's frame is the previous frame.
C3_Witness ==
    /\ GotFrame
    /\ Threw(trackStep)
    /\ prevImage = ConvertTo8U(depthImage)
    /\ \E y \in Rows(DepthHeight), x \in Cols(DepthWidth) : At(prevImage, x, y) = << 255 >>
    /\ \E y \in Rows(DepthHeight), x \in Cols(DepthWidth) : At(prevImage, x, y) # << 255 >>

\* C4 (as claimed): the length of the stored feature sequence changes only on
\* the very first call; no later call changes it.  (The first call that obtains
\* a frame is the one that finds prevImage empty; stated for the calls made
\* while a depth frame is there.)
C4_LengthFixedAfterFirstCall ==
    [][ (prevImage # EmptyMat /\ m_depthBufferPitch # 0)
            => Len(prevFeatures') = Len(prevFeatures) ]_vars

\* C4 (amended): the length of the stored feature sequence changes only on a
\* call that finds the stored sequence empty and so runs detection; once the
\* sequence is non-empty no step changes its length.
C4_LengthFixedOnceNonEmpty ==
    [][ Len(prevFeatures') # Len(prevFeatures)
            => /\ prevFeatures = << >>
               /\ lastCall' = Argb
               /\ trackStep' \in {"detect", "detectThrew"} ]_vars

\* Flow ran on a sequence shorter than maxCorners.
C4_Witness ==
    /\ GotFrame
    /\ trackStep = "flow"
    /\ Len(prevFeatures) >= 1
    /\ Len(prevFeatures) < MaxCorners

\* C5: every pixel of the colorized output is all-zero where the depth sample
\* is 65535 and otherwise the three channels of DepthShortToRgb of that sample
\* followed by alpha 1; it is a function of that pixel's sample alone.
C5_ColorizePerPixel ==
    GotFrame =>
        \A y \in Rows(DepthHeight), x \in Cols(DepthWidth) :
            LET raw == At(depthImage, x, y)[1]
                rgb == DepthShortToRgb(raw)
            IN  At(pImage, x, y) = IF raw = 65535
                               THEN << 0, 0, 0, 0 >>
                               ELSE << rgb[1], rgb[2], rgb[3], 1 >>

\* A colorized frame holding a sentinel sample and a valid one.
C5_Witness ==
    /\ GotFrame
    /\ \E y \in Rows(DepthHeight), x \in Cols(DepthWidth) :
          At(depthImage, x, y)[1] = 65535 /\ At(pImage, x, y) = << 0, 0, 0, 0 >>
    /\ \E y \in Rows(DepthHeight), x \in Cols(DepthWidth) :
          At(depthImage, x, y)[1] # 65535 /\ At(pImage, x, y)[4] = 1

\* C6: a GetDepthDataAsArgb that obtained a depth frame returns S_OK with every
\* pixel of the output written, also when detection or flow threw.
C6_FailureNotPropagated ==
    GotFrame =>
        /\ hr = S_OK
        /\ trackStep # "none"
        /\ \A y \in Rows(DepthHeight), x \in Cols(DepthWidth) : Len(At(pImage, x, y)) = 4

\* A call whose tracker step threw and which returned S_OK.
C6_Witness ==
    /\ GotFrame
    /\ Threw(trackStep)
    /\ hr = S_OK

\* C7: a decoder that copies, from a buffer whose pitch is at least the width
\* times the pixel size, gives depth element (x, y) the 16-bit sample at byte
\* offset y * pitch + 2 * x and colour pixel (x, y) the four bytes at
\* y * pitch + 4 * x.
C7_CopiesEveryElement ==
    [][ /\ (GetDepthData /\ hr' = S_OK /\ m_depthBufferPitch >= 2 * DepthWidth)
            => \A y \in Rows(DepthHeight), x \in Cols(DepthWidth) :
                  At(pImage', x, y) =
                      << SampleAt(m_pDepthBuffer, y * m_depthBufferPitch + 2 * x) >>
        /\ (GetColorData /\ hr' = S_OK /\ m_colorBufferPitch >= 4 * ColorWidth)
            => \A y \in Rows(ColorHeight), x \in Cols(ColorWidth) :
                  At(pImage', x, y) =
                      [c \in 1 .. 4 |->
                          Byte(m_pColorBuffer, y * m_colorBufferPitch + 4 * x + c - 1)] ]_vars

C9_NoDataLeavesState ==
    [][ ( /\ GetDepthDataAsArgb
          /\ GetDepthDataHr(m_colorBufferPitch, m_depthBufferPitch) = E_NUI_FRAME_NO_DATA )
            => /\ hr' = E_NUI_FRAME_NO_DATA
               /\ pImage' = Untouched(DepthWidth, DepthHeight)
               /\ prevImage' = prevImage
               /\ prevFeatures' = prevFeatures
               /\ currentFeatures' = currentFeatures ]_vars

\* A call without a frame, after a frame that left points being tracked.
C9_Witness ==
    /\ lastCall = Argb
    /\ hr = E_NUI_FRAME_NO_DATA
    /\ prevImage # EmptyMat
    /\ prevFeatures # << >>

\* C10: the stored previous feature sequence has at most 20 points, is never
\* the value-initialised points that no detection produced, and is empty after
\* a call whose detection threw.
C10_OnlyProducedPoints ==
    /\ Len(prevFeatures) <= MaxCorners
    /\ prevFeatures # PlaceholderFeatures
    /\ (GotFrame /\ trackStep = "detectThrew") => prevFeatures = << >>

====
